---- MODULE Spec2Model ----
(***************************************************************************)
(* A model of CTC100.py, the host-side driver of the CTC100 temperature   *)
(* controller: the command formatting, the write/poll loop of             *)
(* CTC100.write, the numeric extraction of CTC100.read and the fixed      *)
(* command sequences built on them.                                        *)
(*                                                                         *)
(* Text is a sequence of characters (one-character strings, plus the      *)
(* token E_ACUTE for one non-ASCII character); a byte string is a         *)
(* sequence of bytes (the same one-character strings for ASCII, plus the  *)
(* tokens "0xC3", "0xA9", "0xFF").  The module follows Python 3, which    *)
(* the code's .encode()/.decode() calls on the serial data require.       *)
(***************************************************************************)
EXTENDS Integers, Sequences, FiniteSets, TLC

\* ------------------------------------------------------------ bounds
\* the threshold of CTC100.write, (t2 - t1) > 0.1, in milliseconds
TimeoutMs == 100
\* the clock advances in steps of Quantum milliseconds
Quantum == 60
\* the most bytes one transport read returns
MaxChunk == 2
\* the device answers a command only while at most MaxStale unread bytes
\* of earlier answers are still in the transport
MaxStale == 0
\* the longest run of unterminated bytes a streaming device emits
MaxStream == 1

\* ------------------------------------------------------------ literals
s_value == <<".", "v", "a", "l", "u", "e">>
s_alarm_sound == <<".", "a", "l", "a", "r", "m", ".", "s", "o", "u", "n", "d">>
s_alarm_min == <<".", "a", "l", "a", "r", "m", ".", "m", "i", "n">>
s_alarm_max == <<".", "a", "l", "a", "r", "m", ".", "m", "a", "x">>
s_alarm_mode == <<".", "a", "l", "a", "r", "m", ".", "m", "o", "d", "e">>
s_4_beeps == <<"4", " ", "b", "e", "e", "p", "s">>
s_Level == <<"L", "e", "v", "e", "l">>
s_Off == <<"O", "f", "f">>
s_On == <<"O", "n">>
s_Auto == <<"A", "u", "t", "o">>
s_In == <<"I", "n">>
s_Out == <<"O", "u", "t">>
s_PID_Mode == <<".", "P", "I", "D", ".", "M", "o", "d", "e">>
s_PID_setpoint == <<".", "P", "I", "D", ".", "s", "e", "t", "p", "o", "i", "n", "t">>
s_Tune_StepY == <<".", "T", "u", "n", "e", ".", "S", "t", "e", "p", "Y">>
s_Tune_Lag == <<".", "T", "u", "n", "e", ".", "L", "a", "g">>
s_Tune_Type == <<".", "T", "u", "n", "e", ".", "T", "y", "p", "e">>
s_Tune_Mode == <<".", "T", "u", "n", "e", ".", "M", "o", "d", "e">>
s_outputEnable_on == <<"o", "u", "t", "p", "u", "t", "E", "n", "a", "b", "l", "e", " ", "o", "n">>
s_outputEnable_off == <<"o", "u", "t", "p", "u", "t", "E", "n", "a", "b", "l", "e", " ", "o", "f", "f">>
s_menu_4 == <<"m", "e", "n", "u", " ", "4">>
s_Unable == <<"U", "n", "a", "b", "l", "e", " ", "t", "o", " ", "r", "e", "a", "d", " ", "f", "r", "o", "m", " ", "c", "h", "a", "n", "n", "e", "l", " ">>
s_On_CRLF == <<"O", "n", "\r", "\n">>
CRLF == <<"\r", "\n">>

\* the character U+00E9, two bytes in UTF-8
E_ACUTE == "U+00E9"

Digits == <<"0", "1", "2", "3", "4", "5", "6", "7", "8", "9">>
DigitSet == {Digits[i] : i \in 1..10}

\* ------------------------------------------------------------ Python values
\* a str, an int m, or a float of value m * 10^-e
StrVal(s) == [t |-> "str", s |-> s, m |-> 0, e |-> 0]
IntVal(n) == [t |-> "int", s |-> <<>>, m |-> n, e |-> 0]
FloatVal(m, e) == [t |-> "float", s |-> <<>>, m |-> m, e |-> e]
NoVal == [t |-> "none", s |-> <<>>, m |-> 0, e |-> 0]

Abs(n) == IF n < 0 THEN -n ELSE n

RECURSIVE Pow10(_)
Pow10(k) == IF k = 0 THEN 1 ELSE 10 * Pow10(k - 1)

\* a float's decimal digits without trailing zeros of the fraction
RECURSIVE Normalize(_, _)
Normalize(m, e) ==
    IF e > 0 /\ m % 10 = 0 THEN Normalize(m \div 10, e - 1) ELSE FloatVal(m, e)

\* Python's ==  on numbers: an int and a float compare by value
NumEq(a, b) == a.m * Pow10(b.e) = b.m * Pow10(a.e)

RECURSIVE NatStr(_)
NatStr(n) ==
    IF n < 10 THEN <<Digits[n + 1]>> ELSE NatStr(n \div 10) \o <<Digits[(n % 10) + 1]>>

\* str(int)
IntStr(n) == IF n < 0 THEN <<"-">> \o NatStr(-n) ELSE NatStr(n)

RECURSIVE Zeros(_)
Zeros(k) == IF k <= 0 THEN <<>> ELSE <<"0">> \o Zeros(k - 1)

\* str(float): the shortest repr; fixed notation when the decimal exponent
\* of the leading digit is in -4..15, scientific notation otherwise
FloatStr(m0, e0) ==
    LET v    == Normalize(m0, e0)
        sign == IF v.m < 0 THEN <<"-">> ELSE <<>>
        ds   == NatStr(Abs(v.m))
        nd   == Len(ds)
        x10  == nd - 1 - v.e
        xs   == NatStr(Abs(x10))
    IN  IF v.m = 0 THEN <<"0", ".", "0">>
        ELSE IF x10 < -4 \/ x10 >= 16
        THEN sign \o <<ds[1]>>
                  \o (IF nd > 1 THEN <<".">> \o SubSeq(ds, 2, nd) ELSE <<>>)
                  \o <<"e">> \o (IF x10 < 0 THEN <<"-">> ELSE <<"+">>)
                  \o (IF Len(xs) < 2 THEN <<"0">> ELSE <<>>) \o xs
        ELSE IF v.e = 0 THEN sign \o ds \o <<".", "0">>
        ELSE IF nd > v.e
        THEN sign \o SubSeq(ds, 1, nd - v.e) \o <<".">> \o SubSeq(ds, nd - v.e + 1, nd)
        ELSE sign \o <<"0", ".">> \o Zeros(v.e - nd) \o ds

\* "{}".format(v)
Format(v) ==
    CASE v.t = "str" -> v.s
      [] v.t = "int" -> IntStr(v.m)
      [] v.t = "float" -> FloatStr(v.m, v.e)

\* ------------------------------------------------------------ str methods
\* a bug: str.replace(old, new, 1), the first occurrence only
RECURSIVE Replace_first(_, _, _)
Replace_first(s, old, new) ==
    IF s = <<>> THEN <<>>
    ELSE IF Head(s) = old THEN new \o Tail(s)
    ELSE <<Head(s)>> \o Replace_first(Tail(s), old, new)

\* str.replace(old, new) for a one-character old
RECURSIVE Replace(_, _, _)
Replace(s, old, new) ==
    IF s = <<>> THEN <<>>
    ELSE (IF Head(s) = old THEN new ELSE <<Head(s)>>) \o Replace(Tail(s), old, new)

\* str.encode(): UTF-8
RECURSIVE Encode(_)
Encode(text) ==
    IF text = <<>> THEN <<>>
    ELSE (IF Head(text) = E_ACUTE THEN <<"0xC3", "0xA9">> ELSE <<Head(text)>>)
         \o Encode(Tail(text))

\* bytes.decode("utf-8"): the text, or ok = FALSE for UnicodeDecodeError
RECURSIVE Decode(_)
Decode(bytes) ==
    IF bytes = <<>> THEN [ok |-> TRUE, text |-> <<>>]
    ELSE IF Head(bytes) = "0xC3"
    THEN IF Len(bytes) >= 2 /\ bytes[2] = "0xA9"
         THEN LET r == Decode(SubSeq(bytes, 3, Len(bytes)))
              IN  [ok |-> r.ok, text |-> <<E_ACUTE>> \o r.text]
         ELSE [ok |-> FALSE, text |-> <<>>]
    ELSE IF Head(bytes) \in {"0xA9", "0xFF"} THEN [ok |-> FALSE, text |-> <<>>]
    ELSE LET r == Decode(Tail(bytes))
         IN  [ok |-> r.ok, text |-> <<Head(bytes)>> \o r.text]

\* ------------------------------------------------------------ re, float
\* the first index >= i of text that holds no digit (Len(text) + 1 if none)
RECURSIVE SkipDigits(_, _)
SkipDigits(text, i) ==
    IF i <= Len(text) /\ text[i] \in DigitSet THEN SkipDigits(text, i + 1) ELSE i

\* a bug: the pattern without its sign, \d*\.\d+
MatchAt_unsigned(text, i) ==
    LET p2 == SkipDigits(text, i)
        p3 == SkipDigits(text, p2 + 1)
    IN  IF p2 <= Len(text) /\ text[p2] = "." /\ p3 > p2 + 1 THEN p3 - 1 ELSE 0

\* the end of the match of [-+]?\d*\.\d+ that starts at i, or 0
MatchAt(text, i) ==
    LET p1 == IF i <= Len(text) /\ text[i] \in {"-", "+"} THEN i + 1 ELSE i
        p2 == SkipDigits(text, p1)
        p3 == SkipDigits(text, p2 + 1)
    IN  IF p2 <= Len(text) /\ text[p2] = "." /\ p3 > p2 + 1 THEN p3 - 1 ELSE 0

\* re.search(r"[-+]?\d*\.\d+", text): the leftmost match, or <<>> for None
RECURSIVE SearchFrom(_, _)
SearchFrom(text, i) ==
    IF i > Len(text) THEN <<>>
    ELSE IF MatchAt(text, i) # 0 THEN SubSeq(text, i, MatchAt(text, i))
    ELSE SearchFrom(text, i + 1)

\* a bug: re.match, which matches at the start of the text only
re_search_match(text) ==
    IF MatchAt(text, 1) # 0 THEN SubSeq(text, 1, MatchAt(text, 1)) ELSE <<>>

re_search(text) == SearchFrom(text, 1)

RECURSIVE DigitsVal(_)
DigitsVal(ds) ==
    IF ds = <<>> THEN 0
    ELSE 10 * DigitsVal(SubSeq(ds, 1, Len(ds) - 1))
         + ((CHOOSE d \in 1..10 : Digits[d] = ds[Len(ds)]) - 1)

\* float(token) for a token matched by the pattern
float(tok) ==
    LET signed == tok[1] \in {"-", "+"}
        body   == IF signed THEN Tail(tok) ELSE tok
        p      == CHOOSE i \in 1..Len(body) : body[i] = "."
        frac   == SubSeq(body, p + 1, Len(body))
        mag    == DigitsVal(SubSeq(body, 1, p - 1) \o frac)
    IN  Normalize(IF tok[1] = "-" THEN -mag ELSE mag, Len(frac))

\* ------------------------------------------------------------ commands
\* the command get_variable(var) passes to write
get_variable(var) == Replace(var, " ", <<>>) \o <<"?">>

\* a bug: the value's spaces removed like the name's
Wrap_stripped(val) == <<"(">> \o Replace(Format(val), " ", <<>>) \o <<")">>

\* val = "({})".format(val)
Wrap(val) == <<"(">> \o Format(val) \o <<")">>

\* the command set_variable(var, val) passes to write
set_variable(var, val) == Replace(var, " ", <<>>) \o <<" ", "=", " ">> \o Wrap(val)

\* the command increment_variable(var, val) passes to write
increment_variable(var, val) ==
    Replace(var, " ", <<>>) \o <<" ", "+", "=", " ">> \o Wrap(val)

\* a bug: the isinstance test dropped, every channel prefixed
ResolveChannel_always(channel) == s_In \o Format(channel)

\* if not isinstance(channel, str): channel = "In{}".format(channel)
ResolveChannel(channel) ==
    IF channel.t = "str" THEN channel.s ELSE s_In \o Format(channel)

\* a bug: the response terminator used for the command
WireBytes_crlf(command) == Encode(command \o <<"\r", "\n">>)

\* what write hands to the transport: (command + "\n").encode()
WireBytes(command) == Encode(command \o <<"\n">>)

\* ------------------------------------------------------------ operations
\* An operation is run as the sequence of the write calls (and the sleep) it
\* makes.  A write instruction carries the command, the value assigned (for
\* set_variable) and what its caller does with the response.
W(cmd) == [k |-> "write", cmd |-> cmd, val |-> NoVal, then |-> "next"]
WSet(var, val) == [k |-> "write", cmd |-> set_variable(var, val), val |-> val, then |-> "next"]
WInc(var, val) == [k |-> "write", cmd |-> increment_variable(var, val), val |-> NoVal, then |-> "next"]
WGet(var) == W(get_variable(var))
SleepFor(lag) == [k |-> "sleep", cmd |-> <<>>, val |-> lag, then |-> "next"]

setAlarm(channel, Tmin, Tmax) ==
    LET ch == ResolveChannel(channel)
    IN  << WSet(ch \o s_alarm_sound, StrVal(s_4_beeps)),
           WSet(ch \o s_alarm_min, StrVal(Format(Tmin))),
           WSet(ch \o s_alarm_max, StrVal(Format(Tmax))),
           WSet(ch \o s_alarm_mode, StrVal(s_Level)) >>

disableAlarm(channel) ==
    << WSet(ResolveChannel(channel) \o s_alarm_mode, StrVal(s_Off)) >>

read(channel) == << WGet(ResolveChannel(channel) \o s_value) >>

enableHeater == << W(s_outputEnable_on) >>

disableHeater == << W(s_outputEnable_off) >>

\* a bug: the PID mode switched on before the heater output is enabled
enablePID_reversed(channel) ==
    << WSet(s_Out \o Format(channel) \o s_PID_Mode, StrVal(s_On)) >> \o enableHeater

enablePID(channel) ==
    enableHeater \o << WSet(s_Out \o Format(channel) \o s_PID_Mode, StrVal(s_On)) >>

disablePID(channel) ==
    disableHeater \o << WSet(s_Out \o Format(channel) \o s_PID_Mode, StrVal(s_Off)) >>

\* the channel read_setpoint passes to read
SetpointName(channel) == StrVal(s_Out \o Format(channel) \o s_PID_setpoint)

read_setpoint(channel) == read(SetpointName(channel))

write_setpoint(channel, setpoint) ==
    << WSet(s_Out \o Format(channel) \o s_PID_setpoint, setpoint) >>

\* a bug: the tuning started before the heater is enabled
tunePID_heater_late(channel, StepY, Lag) ==
    << WSet(s_Out \o Format(channel) \o s_Tune_StepY, StepY),
       WSet(s_Out \o Format(channel) \o s_Tune_Lag, Lag),
       WSet(s_Out \o Format(channel) \o s_Tune_Type, StrVal(s_Auto)),
       WSet(s_Out \o Format(channel) \o s_Tune_Mode, StrVal(s_Auto)) >>
    \o enableHeater
    \o << SleepFor(Lag),
          [WGet(s_Out \o Format(channel) \o s_PID_Mode) EXCEPT !.then = "tune_check"] >>

\* tunePID up to and including the query of PID.Mode
tunePID(channel, StepY, Lag) ==
    << WSet(s_Out \o Format(channel) \o s_Tune_StepY, StepY),
       WSet(s_Out \o Format(channel) \o s_Tune_Lag, Lag) >>
    \o enableHeater
    \o << WSet(s_Out \o Format(channel) \o s_Tune_Type, StrVal(s_Auto)),
          WSet(s_Out \o Format(channel) \o s_Tune_Mode, StrVal(s_Auto)),
          SleepFor(Lag),
          [WGet(s_Out \o Format(channel) \o s_PID_Mode) EXCEPT !.then = "tune_check"] >>

\* a bug: the PID mode switched off with the heater output left enabled
tunePID_success_heater_on(channel) ==
    << WSet(s_Out \o Format(channel) \o s_PID_Mode, StrVal(s_Off)), W(s_menu_4) >>

\* tunePID after the query read back "On\r\n"
tunePID_success(channel) == disablePID(channel) \o << W(s_menu_4) >>

\* a call of the driver: the method and its arguments
Op(name, channel, var, val, val2) ==
    [name |-> name, channel |-> channel, var |-> var, val |-> val, val2 |-> val2]
NoOp == Op("none", NoVal, <<>>, NoVal, NoVal)

Program(o) ==
    CASE o.name = "get_variable" -> << WGet(o.var) >>
      [] o.name = "set_variable" -> << WSet(o.var, o.val) >>
      [] o.name = "increment_variable" -> << WInc(o.var, o.val) >>
      [] o.name = "setAlarm" -> setAlarm(o.channel, o.val, o.val2)
      [] o.name = "disableAlarm" -> disableAlarm(o.channel)
      [] o.name = "read" -> read(o.channel)
      [] o.name = "enableHeater" -> enableHeater
      [] o.name = "disableHeater" -> disableHeater
      [] o.name = "enablePID" -> enablePID(o.channel)
      [] o.name = "disablePID" -> disablePID(o.channel)
      [] o.name = "read_setpoint" -> read_setpoint(o.channel)
      [] o.name = "write_setpoint" -> write_setpoint(o.channel, o.val)
      [] o.name = "tunePID" -> tunePID(o.channel, o.val, o.val2)

\* ------------------------------------------------------------ results
Result(kind, bytes, num, exc, msg) ==
    [kind |-> kind, bytes |-> bytes, num |-> num, exc |-> exc, msg |-> msg]
NoResult == Result("pending", <<>>, NoVal, "", <<>>)
ReturnNone == Result("none", <<>>, NoVal, "", <<>>)
ReturnBytes(b) == Result("bytes", b, NoVal, "", <<>>)
ReturnFloat(x) == Result("float", <<>>, x, "", <<>>)
Raise(exc, msg) == Result("raise", <<>>, NoVal, exc, msg)

\* a bug: a response without its CRLF taken for a failed read
read_result_strict(name, resp) ==
    LET d == Decode(resp)
        match == re_search(d.text)
    IN  IF ~d.ok THEN Raise("UnicodeDecodeError", <<>>)
        ELSE IF match # <<>> /\ Len(resp) >= 2 /\ SubSeq(resp, Len(resp) - 1, Len(resp)) = CRLF
             THEN ReturnFloat(float(match))
        ELSE Raise("RuntimeError", s_Unable \o name)

\* read, after get_variable returned `resp`: decode, search, float or raise
read_result(name, resp) ==
    LET d == Decode(resp)
        match == re_search(d.text)
    IN  IF ~d.ok THEN Raise("UnicodeDecodeError", <<>>)
        ELSE IF match # <<>> THEN ReturnFloat(float(match))
        ELSE Raise("RuntimeError", s_Unable \o name)

\* what an operation returns once its last write has returned `resp`
Return(o, resp) ==
    CASE o.name \in {"get_variable", "set_variable", "increment_variable",
                     "setAlarm", "write_setpoint"} -> ReturnBytes(resp)
      [] o.name = "read" -> read_result(ResolveChannel(o.channel), resp)
      [] o.name = "read_setpoint" ->
            read_result(ResolveChannel(SetpointName(o.channel)), resp)
      [] OTHER -> ReturnNone

\* ------------------------------------------------------------ inputs
VarNames ==
    { <<"a", "b">>, <<"a", " ", "b", " ">>, <<"a", "\t", E_ACUTE>> }

Numbers == { IntVal(3), FloatVal(25, 1), FloatVal(-5, 1), FloatVal(15, 6) }

Values == Numbers \cup { StrVal(<<"1", " ", "2">>), StrVal(<<"(", "a", "+", "b", ")">>) }

\* the (name, value) pairs assigned: every name, and every value
Assignments ==
    { <<v, FloatVal(25, 1)>> : v \in VarNames } \cup { <<<<"a", "b">>, x>> : x \in Values }

Channels == { IntVal(1), StrVal(<<"O", "u", "t", "2">>), StrVal(<<"T", " ", "A">>) }

Calls ==
         { Op("get_variable", NoVal, v, NoVal, NoVal) : v \in VarNames }
    \cup { Op("set_variable", NoVal, p[1], p[2], NoVal) : p \in Assignments }
    \cup { Op("increment_variable", NoVal, p[1], p[2], NoVal) : p \in Assignments }
    \cup { Op("read", c, <<>>, NoVal, NoVal) : c \in Channels }
    \cup { Op("setAlarm", c, <<>>, IntVal(3), FloatVal(25, 1)) : c \in Channels }
    \cup { Op("disableAlarm", c, <<>>, NoVal, NoVal) : c \in Channels }
    \cup { Op(n, NoVal, <<>>, NoVal, NoVal) : n \in {"enableHeater", "disableHeater"} }
    \cup { Op(n, IntVal(1), <<>>, NoVal, NoVal) :
              n \in {"enablePID", "disablePID", "read_setpoint"} }
    \cup { Op("write_setpoint", IntVal(1), <<>>, x, NoVal) : x \in Numbers }
    \cup { Op("tunePID", IntVal(1), <<>>, IntVal(3), FloatVal(25, 1)) }

\* what the device may answer to a query, as bytes
QueryReplies ==
    { <<>>,
      CRLF,
      <<"\n">>,
      s_On_CRLF,
      <<"2", ".", "2", "5", "\r", "\n">>,
      <<"T", "-", ".", "5", "\r", "\n">>,
      <<"3", "0", "\r", "\n">>,
      <<"1", ".", "5">>,
      <<"0xFF", "\r", "\n">>,
      <<"0xC3", "0xA9", "\r", "\n">> }

\* what the device may answer to any other command
AckReplies == { <<>>, CRLF }

\* ------------------------------------------------------------ state
VARIABLES
    pc,        \* "idle", "run" (in an operation, between writes), and in
               \* write: "sent" (line 40), "body" (line 43), "ret" (line 47)
    op,        \* the operation called last
    prog,      \* the instructions the operation has still to run
    sent,      \* the byte strings written to the transport by the operation
    response,  \* write's local variable
    elapsed,   \* time.time() - t1, in milliseconds
    pending,   \* the bytes in the transport that no read has returned yet
    stale,     \* the bytes that were pending when the command was written
    reply,     \* the bytes the device produced since the command was written
    stored,    \* the assignment the mock device received last
    result,    \* what the operation returned or raised
    stdout,    \* the messages the operation printed
    events     \* the operation's transport writes, reads (a run of reads
               \* once), returns of write and sleeps, in order, after the
               \* last event before the operation

vars == <<pc, op, prog, sent, response, elapsed, pending, stale, reply, stored, result,
          stdout, events>>

NoStore == [var |-> <<>>, text |-> <<>>, val |-> NoVal]

Init ==
    /\ pc = "idle"
    /\ op = NoOp
    /\ prog = <<>>
    /\ sent = <<>>
    /\ response = <<>>
    /\ elapsed = 0
    /\ pending = <<>>
    /\ stale = <<>>
    /\ reply = <<>>
    /\ stored = NoStore
    /\ result = NoResult
    /\ stdout = <<>>
    /\ events = <<>>

\* ------------------------------------------------------------ the device
\* the index of the first " = " in a command, or 0
AssignAt(bytes) ==
    LET at == { i \in 1..(Len(bytes) - 2) : SubSeq(bytes, i, i + 2) = <<" ", "=", " ">> }
    IN  IF at = {} THEN 0 ELSE CHOOSE i \in at : \A j \in at : i <= j

\* the command queries the variable assigned last, by its name or, as read
\* does, by its name followed by ".value"
QueriesStored(bytes) ==
    /\ stored.var # <<>>
    /\ bytes \in { stored.var \o <<"?", "\n">>, stored.var \o s_value \o <<"?", "\n">> }

\* the mock device keeps the parenthesised value of an assignment until a
\* command other than the query of the variable assigned
DeviceStore(bytes, val) ==
    IF QueriesStored(bytes) THEN stored
    ELSE IF AssignAt(bytes) = 0 THEN NoStore
    ELSE [var |-> SubSeq(bytes, 1, AssignAt(bytes) - 1),
          text |-> SubSeq(bytes, AssignAt(bytes) + 3, Len(bytes) - 1),
          val |-> val]

\* the mock device may answer the query of the variable assigned last by
\* echoing the stored text
Echo(bytes) ==
    IF QueriesStored(bytes) THEN { stored.text \o CRLF } ELSE {}

\* the device answers a query with a value, any other command with an
\* acknowledgement, and nothing while earlier answers are still unread
DeviceReplies(bytes) ==
    IF Len(pending) > MaxStale THEN { <<>> }
    ELSE IF bytes[Len(bytes) - 1] = "?" THEN QueryReplies \cup Echo(bytes)
    ELSE AckReplies

\* ------------------------------------------------------------ write
\* response[-2:]
LastTwo(resp) == SubSeq(resp, IF Len(resp) > 2 THEN Len(resp) - 1 ELSE 1, Len(resp))

\* bytes != str: in Python 3 a bytes object never equals a str
BytesNeStr(b, s) == TRUE

\* a bug: the loop ends as soon as the last byte is a line feed
WhileCond_lastbyte(resp) == resp = <<>> \/ resp[Len(resp)] # "\n"

\* the while condition: len(response) == 1 or response[-2:] != "\r\n"
WhileCond(resp) == Len(resp) = 1 \/ BytesNeStr(LastTwo(resp), CRLF)

\* a bug: response = self.device.read() in the loop
Accumulate_overwrite(resp, chunk) == chunk

\* the response after one more self.device.read() returned `chunk`
Accumulate(resp, chunk) == resp \o chunk

\* a bug: the difference taken the wrong way round, (t1 - t2) > 0.1
TimedOut_swapped(dt) == (0 - dt) > TimeoutMs

\* if (t2 - t1) > 0.1: break
TimedOut(dt) == dt > TimeoutMs

\* the event log after one more event; a read after a read is not logged
\* again; `returns` adds the return of write
Logged(log, e, returns) ==
    (IF e = "read" /\ log # <<>> /\ log[Len(log)] = "read" THEN log ELSE Append(log, e))
    \o (IF returns THEN <<"return">> ELSE <<>>)

\* a bug: any response that starts with "On" taken for success
TuneCheck_startswith(text) == Len(text) >= 2 /\ SubSeq(text, 1, 2) = s_On

\* line 164: ... .decode('utf-8') == "On\r\n"
TuneCheck(text) == text = s_On_CRLF

\* lines 165 and 169: the messages tunePID prints
msg_success == "The PID tuning was successful! The parameters have been updated"
msg_failed == "The PID tuning failed! Try a higher value for StepY, Lag, or both."

\* an operation is called
Call(o) ==
    /\ pc = "idle"
    /\ pc' = "run"
    /\ op' = o
    /\ prog' = Program(o)
    /\ sent' = <<>>
    /\ response' = <<>>
    /\ elapsed' = 0
    /\ stale' = <<>>
    /\ reply' = <<>>
    /\ result' = NoResult
    /\ stdout' = <<>>
    /\ events' = IF events = <<>> THEN <<>> ELSE << events[Len(events)] >>
    /\ UNCHANGED <<pending, stored>>

\* a bug: the command handed to the transport without waiting for the
\* response (self.device.write in place of self.write)
WriteSend_nowait(r) ==
    /\ pc = "run"
    /\ prog # <<>>
    /\ Head(prog).k = "write"
    /\ r \in DeviceReplies(WireBytes(Head(prog).cmd))
    /\ sent' = Append(sent, WireBytes(Head(prog).cmd))
    /\ stored' = DeviceStore(WireBytes(Head(prog).cmd), Head(prog).val)
    /\ stale' = pending
    /\ reply' = r
    /\ pending' = pending \o r
    /\ response' = <<>>
    /\ elapsed' = 0
    /\ pc' = IF Len(prog) > 1 THEN "run" ELSE "sent"
    /\ prog' = IF Len(prog) > 1 THEN Tail(prog) ELSE prog
    /\ events' = Append(events, "write")
    /\ UNCHANGED <<op, result, stdout>>

\* a bug: the input buffer reset before the command is written
\* (self.device.reset_input_buffer())
WriteSend_flush(r) ==
    /\ pc = "run"
    /\ prog # <<>>
    /\ Head(prog).k = "write"
    /\ r \in DeviceReplies(WireBytes(Head(prog).cmd))
    /\ sent' = Append(sent, WireBytes(Head(prog).cmd))
    /\ stored' = DeviceStore(WireBytes(Head(prog).cmd), Head(prog).val)
    /\ stale' = pending
    /\ reply' = r
    /\ pending' = r
    /\ response' = <<>>
    /\ elapsed' = 0
    /\ pc' = "sent"
    /\ events' = Append(events, "write")
    /\ UNCHANGED <<op, prog, result, stdout>>

\* lines 35-40: the command is written, the device answers with r, t1 is taken
WriteSend(r) ==
    /\ pc = "run"
    /\ prog # <<>>
    /\ Head(prog).k = "write"
    /\ r \in DeviceReplies(WireBytes(Head(prog).cmd))
    /\ sent' = Append(sent, WireBytes(Head(prog).cmd))
    /\ stored' = DeviceStore(WireBytes(Head(prog).cmd), Head(prog).val)
    /\ stale' = pending
    /\ reply' = r
    /\ pending' = pending \o r
    /\ response' = <<>>
    /\ elapsed' = 0
    /\ pc' = "sent"
    /\ events' = Append(events, "write")
    /\ UNCHANGED <<op, prog, result, stdout>>

\* a bug: the deadline tested before the loop is entered
FirstRead_deadline(k) ==
    /\ pc = "sent"
    /\ k <= Len(pending)
    /\ response' = SubSeq(pending, 1, k)
    /\ pending' = SubSeq(pending, k + 1, Len(pending))
    /\ pc' = IF TimedOut(elapsed) THEN "ret"
             ELSE IF WhileCond(response') THEN "body" ELSE "ret"
    /\ events' = Logged(events, "read", pc' = "ret")
    /\ UNCHANGED <<op, prog, sent, elapsed, stale, reply, stored, result, stdout>>

\* line 41: the first read returns the first k pending bytes
FirstRead(k) ==
    /\ pc = "sent"
    /\ k <= Len(pending)
    /\ response' = SubSeq(pending, 1, k)
    /\ pending' = SubSeq(pending, k + 1, Len(pending))
    /\ pc' = IF WhileCond(response') THEN "body" ELSE "ret"
    /\ events' = Logged(events, "read", pc' = "ret")
    /\ UNCHANGED <<op, prog, sent, elapsed, stale, reply, stored, result, stdout>>

\* lines 43-46 and the next test of line 42
LoopBody(k) ==
    /\ pc = "body"
    /\ k <= Len(pending)
    /\ response' = Accumulate(response, SubSeq(pending, 1, k))
    /\ pending' = SubSeq(pending, k + 1, Len(pending))
    /\ pc' = IF TimedOut(elapsed) THEN "ret"
             ELSE IF WhileCond(response') THEN "body" ELSE "ret"
    /\ events' = Logged(events, "read", pc' = "ret")
    /\ UNCHANGED <<op, prog, sent, elapsed, stale, reply, stored, result, stdout>>

\* time passes during write
Tick ==
    /\ pc \in {"sent", "body"}
    /\ elapsed <= TimeoutMs
    /\ elapsed' = elapsed + Quantum
    /\ UNCHANGED <<pc, op, prog, sent, response, pending, stale, reply, stored, result,
                   stdout, events>>

\* a device that streams unterminated bytes emits one more
Emit ==
    /\ pc \in {"sent", "body"}
    /\ Len(reply) < MaxStream
    /\ Len(stale) <= MaxStale
    /\ \A i \in 1..Len(reply) : reply[i] = "x"
    /\ reply' = Append(reply, "x")
    /\ pending' = Append(pending, "x")
    /\ UNCHANGED <<pc, op, prog, sent, response, elapsed, stale, stored, result,
                   stdout, events>>

\* line 47 and the caller's next statement
Continue ==
    /\ pc = "ret"
    /\ IF Head(prog).then = "tune_check"
       THEN \* line 164
            IF ~Decode(response).ok
            THEN /\ prog' = <<>>
                 /\ result' = Raise("UnicodeDecodeError", <<>>)
                 /\ stdout' = stdout
                 /\ pc' = "idle"
            ELSE IF TuneCheck(Decode(response).text)
            THEN /\ prog' = tunePID_success(op.channel)
                 /\ result' = result
                 /\ stdout' = Append(stdout, msg_success)
                 /\ pc' = "run"
            ELSE /\ prog' = <<>>
                 /\ result' = ReturnNone
                 /\ stdout' = Append(stdout, msg_failed)
                 /\ pc' = "idle"
       ELSE IF Tail(prog) = <<>>
            THEN /\ prog' = <<>>
                 /\ result' = Return(op, response)
                 /\ stdout' = stdout
                 /\ pc' = "idle"
            ELSE /\ prog' = Tail(prog)
                 /\ result' = result
                 /\ stdout' = stdout
                 /\ pc' = "run"
    /\ UNCHANGED <<op, sent, response, elapsed, pending, stale, reply, stored, events>>

\* line 163: time.sleep(Lag)
Sleep ==
    /\ pc = "run"
    /\ prog # <<>>
    /\ Head(prog).k = "sleep"
    /\ prog' = Tail(prog)
    /\ events' = Append(events, "sleep")
    /\ UNCHANGED <<pc, op, sent, response, elapsed, pending, stale, reply, stored, result,
                   stdout>>

Next ==
    \/ \E o \in Calls : Call(o)
    \/ \E r \in QueryReplies \cup { stored.text \o CRLF } : WriteSend(r)
    \/ \E k \in 0..MaxChunk : FirstRead(k)
    \/ \E k \in 0..MaxChunk : LoopBody(k)
    \/ Tick
    \/ Emit
    \/ Continue
    \/ Sleep

Spec == Init /\ [][Next]_vars

\* the clock advances and the driver keeps running
FairSpec ==
    /\ Spec
    /\ WF_vars(Tick)
    /\ WF_vars(\E k \in 0..MaxChunk : FirstRead(k))
    /\ WF_vars(\E k \in 0..MaxChunk : LoopBody(k))

\* ------------------------------------------------------------ claims
InWrite == pc \in {"sent", "body"}

\* the buffer has length >= 2 and its last two bytes are CRLF
EndsCRLF(b) == Len(b) >= 2 /\ SubSeq(b, Len(b) - 1, Len(b)) = CRLF

HasCRLF(b) == \E i \in 1..(Len(b) - 1) : SubSeq(b, i, i + 1) = CRLF

\* C1: when write returns after the device answered, on a transport with no
\* earlier bytes left in it, with a byte sequence that ends in CRLF, the bytes
\* returned followed by the bytes not yet delivered are exactly that
\* sequence, whatever the chunks were; so when every byte was delivered
\* before the return, write returns exactly the sequence, CRLF included.
C1_ExactResponse ==
    (pc = "ret" /\ stale = <<>> /\ EndsCRLF(reply))
        => /\ response \o pending = reply
           /\ (pending = <<>> => response = reply)

C1_Witness ==
    /\ pc = "ret"
    /\ stale = <<>>
    /\ reply = <<"T", "-", ".", "5", "\r", "\n">>
    /\ pending = <<>>
    /\ response = reply

\* C2: the loop body of write (one more transport read) is never entered
\* with a buffer of length >= 2 whose last two bytes are CRLF.
C2_StopsAtTerminator == pc = "body" => ~EndsCRLF(response)

\* C3: on a transport that produces no CRLF, a write that has sent its
\* command comes to return, after the threshold has passed, the bytes
\* accumulated so far (a prefix of what the transport held).
C3_TimeoutReturns ==
    (InWrite /\ ~HasCRLF(stale \o reply))
        ~> (pc = "ret" /\ elapsed > TimeoutMs /\ response \o pending = stale \o reply)

C3_Witness ==
    /\ pc = "ret"
    /\ elapsed > TimeoutMs
    /\ stale = <<>>
    /\ reply = <<"x">>
    /\ response = <<"x">>

\* a call of read or read_setpoint has ended
ReadEnded == pc = "idle" /\ op.name \in {"read", "read_setpoint"}

\* s is an optional sign, zero or more digits, a point, one or more digits
IsNumber(s) ==
    \E a \in {0, 1}, b \in 0..Len(s) :
        /\ a + b + 2 <= Len(s)
        /\ a = 1 => s[1] \in {"-", "+"}
        /\ \A i \in (a + 1)..(a + b) : s[i] \in DigitSet
        /\ s[a + b + 1] = "."
        /\ \A i \in (a + b + 2)..Len(s) : s[i] \in DigitSet

\* the substrings of text that are numbers, as <<first, last>> index pairs
NumbersIn(text) ==
    { ij \in (1..Len(text)) \X (1..Len(text)) :
         ij[1] <= ij[2] /\ IsNumber(SubSeq(text, ij[1], ij[2])) }

\* the first of them: the leftmost start and, from there, the longest
FirstNumber(text) ==
    CHOOSE ij \in NumbersIn(text) :
        \A kl \in NumbersIn(text) :
            ij[1] < kl[1] \/ (ij[1] = kl[1] /\ ij[2] >= kl[2])

\* the channel name a call of read or read_setpoint resolves to
ReadName(o) ==
    IF o.name = "read_setpoint" THEN s_Out \o IntStr(o.channel.m) \o s_PID_setpoint
    ELSE IF o.channel.t = "str" THEN o.channel.s
    ELSE <<"I", "n">> \o IntStr(o.channel.m)

\* C4: when the response of read decodes to text, read returns the number
\* denoted by the first substring of the text that is an optional sign,
\* digits, a point and one or more digits; when the text has no such
\* substring read raises the RuntimeError that names the resolved channel
\* and returns no value.
C4_ReadFirstNumber ==
    (ReadEnded /\ Decode(response).ok) =>
        LET text == Decode(response).text
        IN  IF NumbersIn(text) = {}
            THEN result = Raise("RuntimeError", s_Unable \o ReadName(op))
            ELSE result = ReturnFloat(float(SubSeq(text, FirstNumber(text)[1],
                                                         FirstNumber(text)[2])))

C4_Witness ==
    /\ ReadEnded
    /\ op.channel = IntVal(1)
    /\ response = <<"T", "-", ".", "5", "\r", "\n">>
    /\ result = ReturnFloat(FloatVal(-5, 1))

\* C5: when the response of read is not valid UTF-8, read raises the same
\* RuntimeError as for a response with no number in it.
C5_DecodeFailureIsReadError ==
    (ReadEnded /\ ~Decode(response).ok)
        => result = Raise("RuntimeError", s_Unable \o ReadName(op))

\* the whitespace characters of the inputs
Whitespace == {" ", "\t", "\n", "\r"}

NoWhitespace(name) == SelectSeq(name, LAMBDA c : c \notin Whitespace)

NoSpaces(name) == SelectSeq(name, LAMBDA c : c # " ")

\* the command a formatting operation makes of a name and a value
FormatOf(o, name) ==
    CASE o.name = "get_variable" -> get_variable(name)
      [] o.name = "set_variable" -> set_variable(name, o.val)
      [] o.name = "increment_variable" -> increment_variable(name, o.val)

Formatting == {"get_variable", "set_variable", "increment_variable"}

TextOf(val) == IF val.t = "str" THEN val.s ELSE Format(val)

\* C7: set_variable(name, v) transmits '<name> = (<v>)' and
\* increment_variable(name, v) transmits '<name> += (<v>)', the text of v
\* unaltered between one opening and one closing parenthesis.
C7_ValueWrappedOnce ==
    /\ (op.name = "set_variable" /\ sent # <<>>) =>
          sent[1] = Encode(NoSpaces(op.var) \o <<" ", "=", " ", "(">>
                           \o TextOf(op.val) \o <<")", "\n">>)
    /\ (op.name = "increment_variable" /\ sent # <<>>) =>
          sent[1] = Encode(NoSpaces(op.var) \o <<" ", "+", "=", " ", "(">>
                           \o TextOf(op.val) \o <<")", "\n">>)

C7_Witness ==
    /\ op.name = "set_variable"
    /\ op.val = StrVal(<<"1", " ", "2">>)
    /\ sent = << <<"a", "b", " ", "=", " ", "(", "1", " ", "2", ")", "\n">> >>

\* the number of write calls an ended operation has made
WritesOf(o) ==
    IF o.name = "tunePID"
    THEN (IF result.kind = "none" /\ Decode(response).ok /\ Len(sent) > 6 THEN 9 ELSE 6)
    ELSE Len(Program(o))

\* C8: every byte string written to the transport is a command followed by
\* one newline, its last byte, and the byte before it is no newline; the
\* command is a query, an assignment, an increment or one of the literal
\* commands; an ended operation has written once per command.
C8_OneNewline ==
    /\ \A i \in 1..Len(sent) :
          LET b == sent[i]
              cmd == SubSeq(b, 1, Len(b) - 1)
          IN  /\ Len(b) >= 2
              /\ b[Len(b)] = "\n"
              /\ cmd[Len(cmd)] \notin {"\n", "\r"}
              /\ \/ cmd[Len(cmd)] \in {"?", ")"}
                 \/ cmd \in {s_outputEnable_on, s_outputEnable_off, s_menu_4}
    /\ (pc = "idle" /\ op.name # "none") => Len(sent) = WritesOf(op)

C8_Witness ==
    /\ pc = "idle"
    /\ op.name = "tunePID"
    /\ Len(sent) = 9
    /\ sent[9] = <<"m", "e", "n", "u", " ", "4", "\n">>

\* the channel name as the claim resolves it
Resolved(channel) ==
    IF channel.t = "str" THEN channel.s ELSE <<"I", "n">> \o IntStr(channel.m)

\* C9: read, setAlarm and disableAlarm query or assign the variable whose
\* name is the channel itself when it is a string and 'In<N>' when it is the
\* number N, followed by the operation's suffix.
C9_ChannelResolution ==
    LET ch == Resolved(op.channel)
        at(i, cmd) == Len(sent) >= i => sent[i] = Encode(cmd \o <<"\n">>)
    IN  /\ op.name = "read" => at(1, get_variable(ch \o s_value))
        /\ op.name = "disableAlarm" =>
              at(1, set_variable(ch \o s_alarm_mode, StrVal(s_Off)))
        /\ op.name = "setAlarm" =>
              /\ at(1, set_variable(ch \o s_alarm_sound, StrVal(s_4_beeps)))
              /\ at(2, set_variable(ch \o s_alarm_min, StrVal(IntStr(op.val.m))))
              /\ at(3, set_variable(ch \o s_alarm_max, StrVal(Format(op.val2))))
              /\ at(4, set_variable(ch \o s_alarm_mode, StrVal(s_Level)))

C9_Witness ==
    /\ op.name = "setAlarm"
    /\ op.channel = StrVal(<<"O", "u", "t", "2">>)
    /\ Len(sent) = 4
    /\ sent[4] = <<"O", "u", "t", "2", ".", "a", "l", "a", "r", "m", ".", "m", "o", "d", "e",
                   " ", "=", " ", "(", "L", "e", "v", "e", "l", ")", "\n">>

\* read_setpoint has ended on the mock device's echo of the value that
\* write_setpoint assigned, delivered whole
EchoRead ==
    /\ pc = "idle"
    /\ op.name = "read_setpoint"
    /\ stored.var = Encode(s_Out \o IntStr(op.channel.m) \o s_PID_setpoint)
    /\ stored.val.t \in {"int", "float"}
    /\ response = stored.text \o CRLF

\* C10 as claimed: the value read back equals the numeric value assigned.
C10_RoundTrip ==
    EchoRead => (result.kind = "float" /\ NumEq(result.num, stored.val))

\* x is a float that Python prints in plain decimal notation:
\* x = 0 or 1e-4 <= |x| < 1e16
PlainFloat(x) ==
    LET lead == Len(NatStr(Abs(x.m))) - 1 - x.e   \* floor(log10(|x|))
    IN  /\ x.t = "float"
        /\ x.m = 0 \/ (lead >= -4 /\ lead < 16)

\* C10 as amended: the value read back equals the value assigned when that
\* value is a float printed in plain decimal notation.
C10_RoundTripPlainFloat ==
    (EchoRead /\ PlainFloat(stored.val))
        => (result.kind = "float" /\ NumEq(result.num, stored.val))

C10_Witness ==
    /\ EchoRead
    /\ stored.val = FloatVal(-5, 1)
    /\ response = <<"(", "-", "0", ".", "5", ")", "\r", "\n">>
    /\ result = ReturnFloat(FloatVal(-5, 1))

\* the write of tunePID's query 'Out<ch>.PID.Mode?' has returned
TuneQueryReturned ==
    pc = "ret" /\ op.name = "tunePID" /\ prog # <<>> /\ Head(prog).then = "tune_check"

\* the response decodes and its text is anything but 'On\r\n'
NotOn(resp) == Decode(resp).ok /\ Decode(resp).text # s_On_CRLF

\* C11: when the decoded response to tunePID's query of Out<ch>.PID.Mode is
\* anything but exactly 'On\r\n', the call ends at once as a tuning failure:
\* it returns None, raises nothing, prints the failure message and writes no
\* further command, so that the query stays the sixth and last command.
C11_TuneFailure ==
    [][ TuneQueryReturned /\ NotOn(response)
            => /\ pc' = "idle"
               /\ result' = ReturnNone
               /\ stdout' = << msg_failed >>
               /\ prog' = <<>>
               /\ sent' = sent
               /\ Len(sent) = 6
               /\ sent[6] = Encode(get_variable(s_Out \o IntStr(op.channel.m) \o s_PID_Mode)
                                   \o <<"\n">>) ]_vars

\* tunePID has ended as a failure on a reply 'On\r\n' cut short by the timeout
C11_Witness ==
    /\ pc = "idle"
    /\ op.name = "tunePID"
    /\ response = <<"O", "n", "\r">>
    /\ result = ReturnNone
    /\ stdout = << msg_failed >>
    /\ Len(sent) = 6

\* C12 as claimed: whenever a read leaves the buffer at exactly one byte,
\* write does not return straight after it: one more read is attempted first.
C12_OneByteReadsAgain ==
    [][ (InWrite /\ Len(response') = 1) => pc' # "ret" ]_vars

\* C12: write never returns on the terminator condition with a buffer of
\* exactly one byte: a first read that leaves one byte, a line feed included,
\* is always followed by another read, and write returns a one-byte buffer
\* only from the loop, by the timeout break, when the deadline has passed at
\* the test that follows the read.
C12_OneByteOnlyByTimeout ==
    [][ (InWrite /\ Len(response') = 1)
            => /\ pc = "sent" => pc' = "body"
               /\ pc' = "ret" => (pc = "body" /\ TimedOut(elapsed)) ]_vars

\* the first read has returned one byte, a line feed, and write is in the
\* loop, about to read again
C12_Witness ==
    /\ pc = "body"
    /\ response = <<"\n">>
    /\ events[Len(events)] = "read"
    /\ pending = <<>>

\* what tunePID(1, 3, 2.5) transmits when the tuning succeeds, in order
TuneTransmitted ==
    << <<"O", "u", "t", "1", ".", "T", "u", "n", "e", ".", "S", "t", "e", "p", "Y",
         " ", "=", " ", "(", "3", ")", "\n">>,
       <<"O", "u", "t", "1", ".", "T", "u", "n", "e", ".", "L", "a", "g", " ", "=",
         " ", "(", "2", ".", "5", ")", "\n">>,
       <<"o", "u", "t", "p", "u", "t", "E", "n", "a", "b", "l", "e", " ", "o", "n",
         "\n">>,
       <<"O", "u", "t", "1", ".", "T", "u", "n", "e", ".", "T", "y", "p", "e", " ",
         "=", " ", "(", "A", "u", "t", "o", ")", "\n">>,
       <<"O", "u", "t", "1", ".", "T", "u", "n", "e", ".", "M", "o", "d", "e", " ",
         "=", " ", "(", "A", "u", "t", "o", ")", "\n">>,
       <<"O", "u", "t", "1", ".", "P", "I", "D", ".", "M", "o", "d", "e", "?", "\n">>,
       <<"o", "u", "t", "p", "u", "t", "E", "n", "a", "b", "l", "e", " ", "o", "f",
         "f", "\n">>,
       <<"O", "u", "t", "1", ".", "P", "I", "D", ".", "M", "o", "d", "e", " ", "=",
         " ", "(", "O", "f", "f", ")", "\n">>,
       <<"m", "e", "n", "u", " ", "4", "\n">> >>

\* the number of transport writes among the first i events
WritesBefore(i) == Cardinality({ j \in 1..i : events[j] = "write" })

\* C13: tunePID transmits, in this order and each only after the write of
\* the one before has returned, the assignments of Tune.StepY and Tune.Lag,
\* 'outputEnable on', the assignments of Tune.Type and Tune.Mode, then sleeps
\* once, after the fifth write has returned, then queries PID.Mode; it goes on
\* only when that response is exactly 'On\r\n', and then transmits
\* 'outputEnable off', 'Out<ch>.PID.Mode = (Off)' and 'menu 4' and ends.
C13_TuneOrder ==
    op = Op("tunePID", IntVal(1), <<>>, IntVal(3), FloatVal(25, 1)) =>
        /\ Len(sent) <= 9
        /\ \A i \in 1..Len(sent) : sent[i] = TuneTransmitted[i]
        /\ \A i \in 2..Len(events) :
              /\ events[i] = "write" => events[i - 1] \in {"return", "sleep"}
              /\ events[i] = "sleep" => events[i - 1] = "return" /\ WritesBefore(i) = 5
        /\ Len(sent) >= 6 => \E i \in 1..Len(events) : events[i] = "sleep"
        /\ (pc = "run" /\ Len(sent) = 6) =>
              /\ Decode(response).ok
              /\ Decode(response).text = <<"O", "n", "\r", "\n">>
              /\ Len(prog) = 3
        /\ Len(sent) > 6 => stdout = << msg_success >>
        /\ (pc = "idle" /\ stdout = << msg_success >>) => Len(sent) = 9

\* tunePID has ended after a successful tuning
C13_Witness ==
    /\ pc = "idle"
    /\ op.name = "tunePID"
    /\ sent = TuneTransmitted
    /\ WritesBefore(Len(events)) = 9
    /\ stdout = << msg_success >>

\* this step is a transport read: some first bytes of `pending` are appended
\* to the response
ReadAppends ==
    \E k \in 0..Len(pending) :
        /\ response' = response \o SubSeq(pending, 1, k)
        /\ pending' = SubSeq(pending, k + 1, Len(pending))

\* C14: within one write the command is written first, to an empty response;
\* the step after it is a read, whatever the clock says, and a first read that
\* leaves no CRLF-terminated buffer is followed by the loop, also when the
\* deadline has passed; write returns only in a step that is a read whose
\* bytes are appended to the returned response; the passing of time alone
\* never ends the call.
C14_ReadThenDeadline ==
    [][ /\ (pc # "sent" /\ pc' = "sent") =>
              /\ pc = "run"
              /\ Len(sent') = Len(sent) + 1
              /\ response' = <<>>
        /\ (pc = "sent" /\ pc' # "sent") =>
              /\ ReadAppends
              /\ ~EndsCRLF(response') => pc' = "body"
        /\ (pc # "ret" /\ pc' = "ret") =>
              /\ InWrite
              /\ ReadAppends
        /\ (InWrite /\ elapsed' # elapsed) => (pc' = pc /\ response' = response) ]_vars

\* write has returned, after the deadline, a buffer that does not end in CRLF
\* and holds the three bytes the device sent, more than one read delivers
C14_Witness ==
    /\ pc = "ret"
    /\ elapsed > TimeoutMs
    /\ stale = <<>>
    /\ reply = <<"1", ".", "5">>
    /\ response = <<"1", ".", "5">>
    /\ pending = <<>>

\* the number of returns of write among the first i events
ReturnsBefore(i) == Cardinality({ j \in 1..i : events[j] = "return" })

\* the commands written whose write has not returned
InFlight ==
    WritesBefore(Len(events)) - (ReturnsBefore(Len(events)) -
        (IF events # <<>> /\ events[1] = "return" THEN 1 ELSE 0))

\* C15: over the operations called one after the other, at most one command
\* is in flight: a command is written only after the write of the command
\* before it, of this operation or of the one before, has returned (or after
\* the sleep that follows that return); between the two there is a transport
\* read; and a write returns only on a buffer that ends in CRLF or after the
\* deadline.
C15_OneInFlight ==
    /\ \A i \in 2..Len(events) :
          /\ events[i] = "write" => events[i - 1] \in {"return", "sleep"}
          /\ events[i] = "read" => events[i - 1] = "write"
          /\ events[i] = "return" => events[i - 1] = "read"
          /\ events[i] = "sleep" => events[i - 1] = "return"
    /\ InFlight = (IF InWrite THEN 1 ELSE 0)
    /\ pc = "ret" => (EndsCRLF(response) \/ TimedOut(elapsed))

\* the second command of an operation is in flight after the write of the
\* first has returned, and the operation before had ended
C15_Witness ==
    /\ InWrite
    /\ Len(sent) = 2
    /\ events = <<"return", "write", "read", "return", "write", "read">>

\* b is the first bytes of c
IsPrefix(b, c) == Len(b) <= Len(c) /\ SubSeq(c, 1, Len(b)) = b

\* C16: write discards no pending byte, before or after sending: from the
\* send to the return, the response followed by the bytes still pending is
\* the bytes an earlier call left unread followed by the reply to this
\* command.  So the returned response starts with the earlier call's late
\* bytes, as many as it is long, and it holds only bytes of its own reply
\* when no byte was left unread.
C16_NothingDiscarded ==
    (InWrite \/ pc = "ret") =>
        /\ response \o pending = stale \o reply
        /\ IsPrefix(response, stale) \/ IsPrefix(stale, response)
        /\ stale = <<>> => IsPrefix(response, reply)

\* a call has returned the CRLF that the call before it, ended by the timeout,
\* had left unread
C16_Witness ==
    /\ pc = "ret"
    /\ stale = <<"\r", "\n">>
    /\ response = <<"\r", "\n">>
    /\ reply = <<>>

\* read has ended on a response cut by the timeout: the first bytes of the
\* reply, not all of them, no CRLF among them, ending in the fractional
\* digits of a number
ReadOfTruncated ==
    /\ ReadEnded
    /\ stale = <<>>
    /\ IsPrefix(response, reply)
    /\ Len(response) < Len(reply)
    /\ ~HasCRLF(response)
    /\ Decode(response).ok
    /\ \E i \in 1..Len(response) :
          IsNumber(SubSeq(Decode(response).text, i, Len(Decode(response).text)))

\* C17: read does not need the whole response: when write timed out on a
\* reply cut after some fractional digits, read returns, as a float and with no
\* error, the number that the first match in the cut text denotes.
C17_TruncatedReadReturns ==
    ReadOfTruncated =>
        LET text == Decode(response).text
        IN  /\ result.kind = "float"
            /\ result.exc = ""
            /\ result.num = float(SubSeq(text, FirstNumber(text)[1], FirstNumber(text)[2]))

\* read has returned 2.2 on the reply '2.25\r\n' cut after '2.2'
C17_Witness ==
    /\ ReadEnded
    /\ stale = <<>>
    /\ reply = <<"2", ".", "2", "5", "\r", "\n">>
    /\ response = <<"2", ".", "2">>
    /\ result = ReturnFloat(FloatVal(22, 1))
    /\ ~NumEq(result.num, FloatVal(225, 2))

\* the two heater commands as transmitted
HeaterOn == <<"o", "u", "t", "p", "u", "t", "E", "n", "a", "b", "l", "e", " ", "o", "n", "\n">>
HeaterOff ==
    <<"o", "u", "t", "p", "u", "t", "E", "n", "a", "b", "l", "e", " ", "o", "f", "f", "\n">>

\* the heater commands transmitted by the operation, in order
HeaterCommands == SelectSeq(sent, LAMBDA b : b \in {HeaterOn, HeaterOff})

\* C18: however tunePID ends, it has transmitted 'outputEnable on';
\* 'outputEnable off' is transmitted only after the success message; when
\* tunePID has ended as a failure (or by the decoding error of the query) the
\* last heater command transmitted is 'outputEnable on', and when it has
\* ended as a success it is 'outputEnable off'.
C18_HeaterAfterTune ==
    op.name = "tunePID" =>
        LET last == HeaterCommands[Len(HeaterCommands)]
        IN  /\ pc = "idle" => \E i \in 1..Len(sent) : sent[i] = HeaterOn
            /\ (\E i \in 1..Len(sent) : sent[i] = HeaterOff) => stdout = << msg_success >>
            /\ (pc = "idle" /\ stdout # << msg_success >>) =>
                  /\ last = HeaterOn
                  /\ stdout = << msg_failed >> <=> result = ReturnNone
                  /\ stdout = <<>> <=> result = Raise("UnicodeDecodeError", <<>>)
            /\ (pc = "idle" /\ stdout = << msg_success >>) =>
                  /\ last = HeaterOff
                  /\ result = ReturnNone

\* tunePID has ended as a failure, on an empty response to its query, with
\* the heater output enabled
C18_Witness ==
    /\ pc = "idle"
    /\ op.name = "tunePID"
    /\ response = <<>>
    /\ stdout = << msg_failed >>
    /\ HeaterCommands = << HeaterOn >>

\* the commands of setAlarm(ch, 3, 2.5), disableAlarm, enablePID(1) and
\* disablePID(1) as transmitted, after the channel's name
AlarmSound ==
    <<".", "a", "l", "a", "r", "m", ".", "s", "o", "u", "n", "d", " ", "=", " ", "(",
      "4", " ", "b", "e", "e", "p", "s", ")", "\n">>
AlarmMin ==
    <<".", "a", "l", "a", "r", "m", ".", "m", "i", "n", " ", "=", " ", "(", "3", ")",
      "\n">>
AlarmMax ==
    <<".", "a", "l", "a", "r", "m", ".", "m", "a", "x", " ", "=", " ", "(", "2", ".",
      "5", ")", "\n">>
AlarmLevel ==
    <<".", "a", "l", "a", "r", "m", ".", "m", "o", "d", "e", " ", "=", " ", "(", "L",
      "e", "v", "e", "l", ")", "\n">>
AlarmOff ==
    <<".", "a", "l", "a", "r", "m", ".", "m", "o", "d", "e", " ", "=", " ", "(", "O",
      "f", "f", ")", "\n">>
PIDModeOn ==
    <<"O", "u", "t", "1", ".", "P", "I", "D", ".", "M", "o", "d", "e", " ", "=", " ",
      "(", "O", "n", ")", "\n">>
PIDModeOff ==
    <<"O", "u", "t", "1", ".", "P", "I", "D", ".", "M", "o", "d", "e", " ", "=", " ",
      "(", "O", "f", "f", ")", "\n">>

\* what was transmitted is the first commands of `expected`, in order, and
\* all of them once the operation has ended
Transmits(expected) ==
    /\ Len(sent) <= Len(expected)
    /\ \A i \in 1..Len(sent) : sent[i] = expected[i]
    /\ pc = "idle" => Len(sent) = Len(expected)

\* C19: setAlarm transmits the assignments of alarm.sound, alarm.min and
\* alarm.max and then 'alarm.mode = (Level)', and returns the response of
\* that last command; disableAlarm transmits only 'alarm.mode = (Off)';
\* enablePID transmits 'outputEnable on' and then 'Out<ch>.PID.Mode = (On)';
\* disablePID transmits 'outputEnable off' and then 'Out<ch>.PID.Mode = (Off)'.
C19_CompositeOrder ==
    LET ch == NoSpaces(Resolved(op.channel))
    IN  /\ op.name = "setAlarm" =>
              /\ Transmits(<< ch \o AlarmSound, ch \o AlarmMin, ch \o AlarmMax,
                              ch \o AlarmLevel >>)
              /\ pc = "idle" => result = ReturnBytes(response)
        /\ op.name = "disableAlarm" => Transmits(<< ch \o AlarmOff >>)
        /\ op.name = "enablePID" => Transmits(<< HeaterOn, PIDModeOn >>)
        /\ op.name = "disablePID" => Transmits(<< HeaterOff, PIDModeOff >>)

\* setAlarm has ended and returned the response to 'alarm.mode = (Level)',
\* the CRLF of the device
C19_Witness ==
    /\ pc = "idle"
    /\ op.name = "setAlarm"
    /\ op.channel = IntVal(1)
    /\ Len(sent) = 4
    /\ sent[4] = <<"I", "n", "1">> \o AlarmLevel
    /\ stale = <<>>
    /\ reply = CRLF
    /\ result = ReturnBytes(CRLF)

====
